---- MODULE Spec2Model ----
(***************************************************************************)
(* Model of mcce4_tools/assign_waterchains2pdb.py: the pipeline of main()  *)
(* (align_structures, assign_chain_ids, write_pdb_with_chain_ids) over two *)
(* parsed structures.                                                      *)
(*                                                                         *)
(* A structure is the sequence of its residues in the traversal order of   *)
(* the nested loops "for model / for chain / for residue"; each residue    *)
(* carries the id of its parent chain.  A residue is identified by its     *)
(* position in that sequence, an atom by <<residue position, atom          *)
(* position>>.  Coordinates are integer 3-vectors; distances are compared  *)
(* through their squares, which orders them exactly as the norms do.       *)
(***************************************************************************)
EXTENDS Integers, Sequences, FiniteSets, TLC

\* Bounds of the model: residues per hydrated / reference structure.
MaxHydRes == 3
MaxRefRes == 2

\* Program constants.
WaterNames == {"HOH", "WAT", "H2O", "TIP3"}
OxygenNames == {"O", "OW", "OH2"}
SearchRadius == 20

\* IEEE not-a-number, as numpy yields for the mean of an empty coordinate set.
NaN == 0 - 999
NaNVec == <<NaN, NaN, NaN>>

VARIABLES
    entry,                       \* the function the caller entered: main or assign_chain_ids
    pc,                          \* position in main(): align, assign, write, done, failed
    failure,                     \* the call that raised, "" when none did
    warnings,                    \* the warnings printed so far
    hydrated, reference,         \* the two parsed structures
    input_hydrated, input_reference,   \* the structures as parsed (never updated)
    sup_fixed, sup_moving,       \* the atom lists handed to Superimposer.set_atoms
    rotran, rms,                 \* the superposition's translation and its deviation
    ref_residues_with_chains,
    hydrated_protein_residues,
    hydrated_water_residues,
    residue_to_chain,
    protein_atoms, atom_to_chain,
    ns,                          \* the spatial index: its atoms, in its order
    queries,                     \* per queried water: the coordinate and ns.search's result
    chain_assignments, water_count,
    out, out_end                 \* the records written, and the number of END lines

vars == <<entry, pc, failure, warnings, hydrated, reference, input_hydrated,
          input_reference, sup_fixed, sup_moving, rotran, rms,
          ref_residues_with_chains, hydrated_protein_residues,
          hydrated_water_residues, residue_to_chain, protein_atoms,
          atom_to_chain, ns, queries, chain_assignments, water_count,
          out, out_end>>

align_vars == <<sup_fixed, sup_moving, rotran, rms>>
assign_vars == <<ref_residues_with_chains, hydrated_protein_residues,
                 hydrated_water_residues, residue_to_chain, protein_atoms,
                 atom_to_chain, ns, queries, chain_assignments, water_count>>
write_vars == <<out, out_end>>

----------------------------------------------------------------------------
\* Generic helpers.

Range(s) == {s[i] : i \in DOMAIN s}
Min(a, b) == IF a <= b THEN a ELSE b
SeqsUpTo(S, n) == UNION {[1..k -> S] : k \in 0..n}
EmptyMap == [x \in {} |-> x]

\* The elements of a set of positions, in increasing (iteration) order.
RECURSIVE IdxSeq(_)
IdxSeq(S) ==
    IF S = {} THEN <<>>
    ELSE LET m == CHOOSE x \in S : \A y \in S : x <= y
         IN  <<m>> \o IdxSeq(S \ {m})

VAdd(u, v) == <<u[1] + v[1], u[2] + v[2], u[3] + v[3]>>
VSub(u, v) == <<u[1] - v[1], u[2] - v[2], u[3] - v[3]>>
VDiv(u, n) == <<u[1] \div n, u[2] \div n, u[3] \div n>>
Norm2(u) == u[1] * u[1] + u[2] * u[2] + u[3] * u[3]
Dist2(u, v) == Norm2(VSub(u, v))

RECURSIVE VSum(_)
VSum(cs) == IF cs = <<>> THEN <<0, 0, 0>> ELSE VAdd(Head(cs), VSum(Tail(cs)))

RECURSIVE NatSum(_)
NatSum(ns_) == IF ns_ = <<>> THEN 0 ELSE Head(ns_) + NatSum(Tail(ns_))

----------------------------------------------------------------------------
\* The parsed inputs.

Atom(n, c) == [name |-> n, coord |-> c]
Residue(ch, rn, h, as) == [chain |-> ch, resname |-> rn, het |-> h, atoms |-> as]

\* Residues a hydrated file can hold: two polymer residues 30 units apart, a
\* water written as an ATOM record whose oxygen is its second atom, a water
\* with no oxygen, within the radius of the first polymer residue only, a
\* water with no atom at all, and a ligand.
HydratedResidues == {
    Residue("X", "ALA", " ", <<Atom("CA", <<0, 0, 0>>)>>),
    Residue("Y", "GLY", " ", <<Atom("N", <<0, 0, 30>>), Atom("CA", <<0, 2, 30>>)>>),
    Residue("X", "HOH", " ", <<Atom("H1", <<0, 0, 5>>), Atom("O", <<0, 0, 16>>)>>),
    Residue("W", "WAT", "W", <<Atom("H1", <<0, 0, 9>>)>>),
    Residue("W", "TIP3", "W", <<>>),
    Residue("Y", "LIG", "H", <<Atom("C1", <<0, 0, 16>>)>>) }

\* Residues a reference file can hold: polymer residues of two chains, and a
\* water written as an ATOM record.
ReferenceResidues == {
    Residue("A", "ALA", " ", <<Atom("CA", <<1, 0, 0>>)>>),
    Residue("B", "GLY", " ", <<Atom("CA", <<5, 2, 0>>)>>),
    Residue("C", "HOH", " ", <<Atom("O", <<9, 9, 9>>)>>) }

HydratedInputs == SeqsUpTo(HydratedResidues, MaxHydRes)
ReferenceInputs == SeqsUpTo(ReferenceResidues, MaxRefRes)

Coord(structure, at) == structure[at[1]].atoms[at[2]].coord
Coords(structure, ats) == [k \in 1..Len(ats) |-> Coord(structure, ats[k])]

----------------------------------------------------------------------------
\* get_ca_atoms and align_structures.

HasAtom(res, nm) == \E a \in 1..Len(res.atoms) : res.atoms[a].name = nm
AtomNamed(res, nm) == CHOOSE a \in 1..Len(res.atoms) : res.atoms[a].name = nm

\* The CA atom of every standard residue that has one, in traversal order.
get_ca_atoms(structure) ==
    LET sel == IdxSeq({i \in 1..Len(structure) :
                        structure[i].het = " " /\ HasAtom(structure[i], "CA")})
    IN  [k \in 1..Len(sel) |-> <<sel[k], AtomNamed(structure[sel[k]], "CA")>>]

\* A truncation that keeps the last min_len atoms instead of the first.
TruncateTail(atoms, min_len) == SubSeq(atoms, Len(atoms) - min_len + 1, Len(atoms))

\* ref_ca[:min_len], hydrated_ca[:min_len]
Truncate(atoms, min_len) == SubSeq(atoms, 1, min_len)

\* Superimposer.set_atoms(fixed, moving) on two non-empty coordinate lists of
\* equal length: the least-squares transform taking moving onto fixed, and its
\* deviation.  The rotation is left out: the transform is the translation
\* between the centroids, the deviation the mean squared residual.
Superimpose(fixed, moving) ==
    LET n == Len(fixed)
        tran == VDiv(VSub(VSum(fixed), VSum(moving)), n)
        res == [k \in 1..n |-> Dist2(VAdd(moving[k], tran), fixed[k])]
    IN  [tran |-> tran, rms |-> NatSum(res) \div n]

\* The transform applied to every atom of one structure.
Apply(structure, tran) ==
    [i \in 1..Len(structure) |->
        [structure[i] EXCEPT !.atoms =
            [a \in 1..Len(structure[i].atoms) |->
                [structure[i].atoms[a] EXCEPT !.coord =
                    IF tran = NaNVec THEN NaNVec
                    ELSE VAdd(structure[i].atoms[a].coord, tran)]]]]

\* A transform applied to the hydrated structure instead of the reference.
ApplyTransformSwapped(reference_structure, hydrated_structure, tran) ==
    [reference |-> reference_structure,
     hydrated |-> Apply(hydrated_structure, tran)]

\* super_imposer.apply(reference_structure.get_atoms()): what the call leaves
\* of the two structures.
ApplyTransform(reference_structure, hydrated_structure, tran) ==
    [reference |-> Apply(reference_structure, tran),
     hydrated |-> hydrated_structure]

\* The two anchor lists align_structures hands to set_atoms(fixed, moving).
AlignLists(reference_structure, hydrated_structure) ==
    LET ref_ca == get_ca_atoms(reference_structure)
        hydrated_ca == get_ca_atoms(hydrated_structure)
        min_len == Min(Len(ref_ca), Len(hydrated_ca))
        differ == Len(ref_ca) # Len(hydrated_ca)
    IN  [differ |-> differ,
         fixed |-> IF differ THEN Truncate(hydrated_ca, min_len) ELSE hydrated_ca,
         moving |-> IF differ THEN Truncate(ref_ca, min_len) ELSE ref_ca]

\* The superposition align_structures computes for two structures that have
\* an anchor pair.
AlignTransform(reference_structure, hydrated_structure) ==
    LET l == AlignLists(reference_structure, hydrated_structure)
    IN  Superimpose(Coords(hydrated_structure, l.fixed),
                    Coords(reference_structure, l.moving))

align_structures ==
    /\ pc = "align"
    /\ \E l \in {AlignLists(reference, hydrated)} :
           /\ warnings' = IF l.differ THEN warnings \cup {"ca_mismatch"} ELSE warnings
           /\ sup_fixed' = l.fixed
           /\ sup_moving' = l.moving
           /\ IF Len(l.fixed) # Len(l.moving)
              THEN \* set_atoms: "Fixed and moving atom lists differ in size"
                   /\ pc' = "failed" /\ failure' = "Superimposer"
                   /\ UNCHANGED <<rotran, rms, reference, hydrated>>
              ELSE IF Len(l.fixed) = 0
              THEN \* no anchor pair: the centroid is 0/0.  The library either
                   \* raises or goes on with not-a-number, by its version.
                   \/ /\ pc' = "failed" /\ failure' = "Superimposer"
                      /\ UNCHANGED <<rotran, rms, reference, hydrated>>
                   \/ /\ pc' = "assign" /\ failure' = failure
                      /\ rotran' = NaNVec /\ rms' = NaN
                      /\ \E t \in {ApplyTransform(reference, hydrated, NaNVec)} :
                            reference' = t.reference /\ hydrated' = t.hydrated
              ELSE \E s \in {Superimpose(Coords(hydrated, l.fixed),
                                         Coords(reference, l.moving))} :
                       /\ pc' = "assign" /\ failure' = failure
                       /\ rotran' = s.tran /\ rms' = s.rms
                       /\ \E t \in {ApplyTransform(reference, hydrated, s.tran)} :
                             reference' = t.reference /\ hydrated' = t.hydrated
    /\ UNCHANGED <<entry, input_hydrated, input_reference>>
    /\ UNCHANGED assign_vars
    /\ UNCHANGED write_vars

----------------------------------------------------------------------------
\* assign_chain_ids.

\* The chain id of every standard residue of the reference, in traversal order.
RefResiduesWithChains(structure) ==
    LET sel == IdxSeq({i \in 1..Len(structure) : structure[i].het = " "})
    IN  [k \in 1..Len(sel) |-> structure[sel[k]].chain]

\* The hydrated residues with a water name, whatever their flag.
HydratedWaterResidues(structure) ==
    IdxSeq({i \in 1..Len(structure) : structure[i].resname \in WaterNames})

\* The hydrated residues that are standard and bear no water name.
HydratedProteinResidues(structure) ==
    IdxSeq({i \in 1..Len(structure) :
              /\ structure[i].resname \notin WaterNames
              /\ structure[i].het = " "})

\* for i in range(min_len): residue_to_chain[protein[i]] = ref_chains[i]
AssignProtein(protein, ref_chains, min_len) ==
    [r \in {protein[k] : k \in 1..min_len} |->
        ref_chains[CHOOSE k \in 1..min_len : protein[k] = r]]

\* The atoms of the given residues, residue by residue, atom by atom.
RECURSIVE FlattenAtoms(_, _)
FlattenAtoms(structure, residues) ==
    IF residues = <<>> THEN <<>>
    ELSE [a \in 1..Len(structure[Head(residues)].atoms) |-> <<Head(residues), a>>]
         \o FlattenAtoms(structure, Tail(residues))

\* protein_atoms: the atoms of hydrated_protein_residues[:min_len]
ProteinAtoms(structure, protein, min_len) ==
    FlattenAtoms(structure, SubSeq(protein, 1, min_len))

\* An index whose atoms are tagged with the chain their residue has in the
\* hydrated file.
AtomToChainOwn(structure, atoms, mapping) ==
    [at \in Range(atoms) |-> structure[at[1]].chain]

\* atom_to_chain[atom] = chain_id, the label assigned to the atom's residue
AtomToChain(structure, atoms, mapping) == [at \in Range(atoms) |-> mapping[at[1]]]

\* A representative that is always the first atom.
WaterCoordAtomFirst(res) == IF Len(res.atoms) > 0 THEN 1 ELSE 0

\* The atom whose coordinate stands for a water: the first one with an oxygen
\* name, else the first one, else none (0).
WaterCoordAtom(res) ==
    LET oxy == {a \in 1..Len(res.atoms) : res.atoms[a].name \in OxygenNames}
    IN  IF oxy # {} THEN CHOOSE a \in oxy : \A b \in oxy : a <= b
        ELSE IF Len(res.atoms) > 0 THEN 1
        ELSE 0

\* NeighborSearch(protein_atoms): the index over a non-empty atom list.  It
\* returns its atoms in the order they were given to it.
NeighborSearch(atoms) == atoms

\* ns.search(center, radius, level='A'): the indexed atoms within the radius,
\* in the index's order.
Search(index, structure, center, radius) ==
    SelectSeq(index, LAMBDA at : Dist2(Coord(structure, at), center) <= radius * radius)

\* An argmin that returns the last position holding the least value.
ArgMinLast(distances) ==
    CHOOSE i \in 1..Len(distances) :
        /\ \A j \in 1..Len(distances) : distances[i] <= distances[j]
        /\ \A j \in (i + 1)..Len(distances) : distances[j] > distances[i]

\* np.argmin: the first position holding the least value.
ArgMin(distances) ==
    CHOOSE i \in 1..Len(distances) :
        /\ \A j \in 1..Len(distances) : distances[i] <= distances[j]
        /\ \A j \in 1..(i - 1) : distances[j] > distances[i]

\* One pass of the loop over the waters: the query made for water w.
WaterQuery(structure, index, w) ==
    LET c == Coord(structure, <<w, WaterCoordAtom(structure[w])>>)
    IN  [coord |-> c, nearest |-> Search(index, structure, c, SearchRadius)]

\* The chain of the closest atom a query returned.
ClosestChain(structure, q, a2c) ==
    LET distances == [k \in 1..Len(q.nearest) |->
                        Dist2(q.coord, Coord(structure, q.nearest[k]))]
    IN  a2c[q.nearest[ArgMin(distances)]]

\* Everything assign_chain_ids computes for two structures.
AssignOutcome(hydrated_structure, reference_structure) ==
    LET ref_chains == RefResiduesWithChains(reference_structure)
        protein == HydratedProteinResidues(hydrated_structure)
        waters == HydratedWaterResidues(hydrated_structure)
        differ == Len(ref_chains) # Len(protein)
        min_len == IF differ THEN Min(Len(ref_chains), Len(protein))
                   ELSE Len(ref_chains)
        prot_map == AssignProtein(protein, ref_chains, min_len)
        atoms == ProteinAtoms(hydrated_structure, protein, min_len)
        a2c == AtomToChain(hydrated_structure, atoms, prot_map)
        index == NeighborSearch(atoms)
        qs == [w \in {v \in Range(waters) :
                        WaterCoordAtom(hydrated_structure[v]) # 0} |->
                 WaterQuery(hydrated_structure, index, w)]
        wat_map == [w \in {v \in DOMAIN qs : qs[v].nearest # <<>>} |->
                      ClosestChain(hydrated_structure, qs[w], a2c)]
    IN  [differ |-> differ,
         ref_residues_with_chains |-> ref_chains,
         hydrated_protein_residues |-> protein,
         hydrated_water_residues |-> waters,
         protein_atoms |-> atoms,
         atom_to_chain |-> a2c,
         ns |-> index,
         queries |-> qs,
         residue_to_chain |-> wat_map @@ prot_map,
         water_count |-> Len(waters),
         chain_assignments |->
             [c \in Range(wat_map) |->
                 Cardinality({w \in DOMAIN wat_map : wat_map[w] = c})]]

assign_chain_ids ==
    /\ pc = "assign"
    /\ \E o \in {AssignOutcome(hydrated, reference)} :
             /\ warnings' = IF o.differ THEN warnings \cup {"residue_mismatch"}
                            ELSE warnings
             /\ IF o.protein_atoms = <<>>
                THEN \* NeighborSearch([]): the coordinate array has no second
                     \* dimension, and asking for it raises.
                     /\ pc' = "failed" /\ failure' = "NeighborSearch"
                     /\ UNCHANGED assign_vars
                ELSE /\ pc' = "write" /\ failure' = failure
                     /\ ref_residues_with_chains' = o.ref_residues_with_chains
                     /\ hydrated_protein_residues' = o.hydrated_protein_residues
                     /\ hydrated_water_residues' = o.hydrated_water_residues
                     /\ protein_atoms' = o.protein_atoms
                     /\ atom_to_chain' = o.atom_to_chain
                     /\ ns' = o.ns
                     /\ queries' = o.queries
                     /\ residue_to_chain' = o.residue_to_chain
                     /\ water_count' = o.water_count
                     /\ chain_assignments' = o.chain_assignments
    /\ UNCHANGED <<entry, hydrated, reference, input_hydrated, input_reference>>
    /\ UNCHANGED align_vars
    /\ UNCHANGED write_vars

----------------------------------------------------------------------------
\* write_pdb_with_chain_ids.

\* A lookup whose default is a blank chain label.
OutChainIdBlank(structure, mapping, r) ==
    IF r \in DOMAIN mapping THEN mapping[r] ELSE " "

\* residue_to_chain.get(residue, chain.id)
OutChainId(structure, mapping, r) ==
    IF r \in DOMAIN mapping THEN mapping[r] ELSE structure[r].chain

\* A writer whose serial numbers start again at 1 in every residue.
RECURSIVE WriteFromRestart(_, _, _, _)
WriteFromRestart(structure, mapping, r, atom_number) ==
    IF r > Len(structure) THEN <<>>
    ELSE LET res == structure[r]
         IN  [a \in 1..Len(res.atoms) |->
                 [record_type |-> IF res.het = " " THEN "ATOM" ELSE "HETATM",
                  serial |-> a,
                  name |-> res.atoms[a].name,
                  resname |-> res.resname,
                  chain_id |-> IF r \in DOMAIN mapping THEN mapping[r] ELSE res.chain,
                  residue |-> r,
                  coord |-> res.atoms[a].coord]]
             \o WriteFromRestart(structure, mapping, r + 1, 1)

\* The records of residue r and of the residues after it, the next serial
\* number being atom_number.
RECURSIVE WriteFrom(_, _, _, _)
WriteFrom(structure, mapping, r, atom_number) ==
    IF r > Len(structure) THEN <<>>
    ELSE LET res == structure[r]
             chain_id == OutChainId(structure, mapping, r)
         IN  [a \in 1..Len(res.atoms) |->
                 [record_type |-> IF res.het = " " THEN "ATOM" ELSE "HETATM",
                  serial |-> atom_number + a - 1,
                  name |-> res.atoms[a].name,
                  resname |-> res.resname,
                  chain_id |-> chain_id,
                  residue |-> r,
                  coord |-> res.atoms[a].coord]]
             \o WriteFrom(structure, mapping, r + 1, atom_number + Len(res.atoms))

write_pdb_with_chain_ids ==
    /\ pc = "write"
    /\ out' = WriteFrom(hydrated, residue_to_chain, 1, 1)
    /\ out_end' = out_end + 1
    /\ pc' = "done"
    /\ UNCHANGED <<entry, failure, warnings, hydrated, reference,
                   input_hydrated, input_reference>>
    /\ UNCHANGED align_vars
    /\ UNCHANGED assign_vars

----------------------------------------------------------------------------

\* main() parses the two files and aligns first; a caller of the module may
\* also hand two parsed structures to assign_chain_ids directly and write the
\* result.
Init ==
    /\ entry \in {"main", "assign_chain_ids"}
    /\ pc = IF entry = "main" THEN "align" ELSE "assign"
    /\ failure = ""
    /\ warnings = {}
    /\ hydrated \in HydratedInputs
    /\ reference \in ReferenceInputs
    /\ input_hydrated = hydrated
    /\ input_reference = reference
    /\ sup_fixed = <<>> /\ sup_moving = <<>>
    /\ rotran = <<0, 0, 0>> /\ rms = 0
    /\ ref_residues_with_chains = <<>>
    /\ hydrated_protein_residues = <<>>
    /\ hydrated_water_residues = <<>>
    /\ residue_to_chain = EmptyMap
    /\ protein_atoms = <<>>
    /\ atom_to_chain = EmptyMap
    /\ ns = <<>>
    /\ queries = EmptyMap
    /\ chain_assignments = EmptyMap
    /\ water_count = 0
    /\ out = <<>>
    /\ out_end = 0

Next ==
    \/ align_structures
    \/ assign_chain_ids
    \/ write_pdb_with_chain_ids

Spec == Init /\ [][Next]_vars

----------------------------------------------------------------------------
\* Properties.

Aligned == entry = "main" /\ pc # "align"
AssignActed == pc \in {"write", "done"} \/ failure = "NeighborSearch"
Returned == pc \in {"write", "done"}
Written == pc = "done"

\* The number of atoms the traversal meets before residue r.
AtomsBefore(structure, r) ==
    NatSum([i \in 1..(r - 1) |-> Len(structure[i].atoms)])

\* The structures that differ from s in their last residue at most: it is
\* replaced, dropped, or followed by one more.
TailVariants(s, templates) ==
    {Append(s, t) : t \in templates}
    \cup (IF s = <<>> THEN {}
          ELSE {SubSeq(s, 1, Len(s) - 1)}
               \cup {[s EXCEPT ![Len(s)] = t] : t \in templates})

\* The coordinates of the first k anchors of a structure.
FirstAnchors(s, k) == Coords(s, SubSeq(get_ca_atoms(s), 1, k))

\* C1: every label in the mapping assign_chain_ids returns, for a polymer or
\* a solvent residue, occurs in the reference chain-label sequence; the index
\* holds only atoms of polymer residues labelled by position, each tagged
\* with a reference label.
C1_LabelsFromReference ==
    Returned =>
        /\ \A r \in DOMAIN residue_to_chain :
              residue_to_chain[r] \in Range(ref_residues_with_chains)
        /\ \A at \in Range(ns) :
              /\ at \in Range(protein_atoms)
              /\ \E k \in 1..Min(Len(ref_residues_with_chains),
                                 Len(hydrated_protein_residues)) :
                    /\ hydrated_protein_residues[k] = at[1]
                    /\ atom_to_chain[at] = ref_residues_with_chains[k]

\* C1 witness: a solvent residue that received a label although its own
\* hydrated label is not a reference label, next to a polymer residue left
\* without one.
C1_Witness ==
    /\ Returned
    /\ \E w \in Range(hydrated_water_residues) :
          /\ w \in DOMAIN residue_to_chain
          /\ input_hydrated[w].chain \notin Range(ref_residues_with_chains)
    /\ \E p \in Range(hydrated_protein_residues) : p \notin DOMAIN residue_to_chain

\* C2: the mapping assign_chain_ids returns maps P[i] to R[i] for i up to
\* min(len(R), len(P)) and holds no other polymer residue; and when the two
\* counts differ the function still returns: the mismatch is no failure.
C2_PositionCorrespondence ==
    AssignActed =>
        LET R == RefResiduesWithChains(input_reference)
            P == HydratedProteinResidues(input_hydrated)
            m == Min(Len(R), Len(P))
        IN  /\ Len(R) # Len(P) => Returned
            /\ Returned =>
                 /\ \A i \in 1..m : /\ P[i] \in DOMAIN residue_to_chain
                                    /\ residue_to_chain[P[i]] = R[i]
                 /\ \A i \in (m + 1)..Len(P) : P[i] \notin DOMAIN residue_to_chain
                 /\ Cardinality(DOMAIN residue_to_chain \cap Range(P)) = m

\* C3: a solvent residue whose query returns atoms gets the label assigned to
\* the residue owning the returned atom at least distance, the first such
\* atom of the result when several are at that distance.
C3_NearestFirst ==
    Returned =>
        \A w \in DOMAIN queries :
            LET q == queries[w]
                d(k) == Dist2(q.coord, Coord(input_hydrated, q.nearest[k]))
                least == {k \in 1..Len(q.nearest) :
                            \A j \in 1..Len(q.nearest) : d(k) <= d(j)}
                first == CHOOSE k \in least : \A j \in least : k <= j
            IN  q.nearest # <<>> =>
                    /\ w \in DOMAIN residue_to_chain
                    /\ residue_to_chain[w] = residue_to_chain[q.nearest[first][1]]

\* C3 witness: a query that returned two atoms of differently labelled
\* residues at the same least distance.
C3_Witness ==
    /\ Returned
    /\ \E w \in DOMAIN queries :
          LET q == queries[w]
              d(k) == Dist2(q.coord, Coord(input_hydrated, q.nearest[k]))
              least == {k \in 1..Len(q.nearest) :
                          \A j \in 1..Len(q.nearest) : d(k) <= d(j)}
          IN  \E k1, k2 \in least :
                 residue_to_chain[q.nearest[k1][1]] # residue_to_chain[q.nearest[k2][1]]

\* C4: once the file is written, a solvent residue with no atom, or with no
\* indexed atom within 20 units of its coordinate, has no entry in the mapping
\* and all its atoms are written with its hydrated chain label; every residue
\* is written with its mapped label if it has one, its own label otherwise.
C4_UnassignedFallback ==
    Written =>
        /\ \A w \in Range(hydrated_water_residues) :
              LET unmatched ==
                    \/ Len(input_hydrated[w].atoms) = 0
                    \/ /\ w \in DOMAIN queries
                       /\ \A at \in Range(ns) :
                             Dist2(Coord(input_hydrated, at), queries[w].coord) > 20 * 20
              IN  unmatched =>
                    /\ w \notin DOMAIN residue_to_chain
                    /\ Cardinality({k \in DOMAIN out : out[k].residue = w})
                          = Len(input_hydrated[w].atoms)
                    /\ \A k \in DOMAIN out :
                          out[k].residue = w => out[k].chain_id = input_hydrated[w].chain
        /\ \A k \in DOMAIN out :
              out[k].chain_id =
                  IF out[k].residue \in DOMAIN residue_to_chain
                  THEN residue_to_chain[out[k].residue]
                  ELSE input_hydrated[out[k].residue].chain

\* C4 witness: a written file with a solvent residue out of range of every
\* indexed atom, written under its own label, and a solvent residue that was
\* given a label.
C4_Witness ==
    /\ Written
    /\ \E w \in Range(hydrated_water_residues) :
          /\ w \in DOMAIN queries
          /\ queries[w].nearest = <<>>
          /\ \E k \in DOMAIN out :
                out[k].residue = w /\ out[k].chain_id = input_hydrated[w].chain
    /\ \E w \in Range(hydrated_water_residues) : w \in DOMAIN residue_to_chain

\* C5: the written file holds one record per atom of the hydrated structure,
\* in traversal order; the k-th record describes the k-th atom and carries
\* serial number k; one END line follows.
C5_OrderPreserved ==
    Written =>
        /\ Len(out) = AtomsBefore(input_hydrated, Len(input_hydrated) + 1)
        /\ \A r \in 1..Len(input_hydrated) :
              \A a \in 1..Len(input_hydrated[r].atoms) :
                 LET k == AtomsBefore(input_hydrated, r) + a
                 IN  /\ out[k].serial = k
                     /\ out[k].residue = r
                     /\ out[k].name = input_hydrated[r].atoms[a].name
                     /\ out[k].resname = input_hydrated[r].resname
                     /\ out[k].coord = input_hydrated[r].atoms[a].coord
        /\ out_end = 1

\* C5 witness: a written file in which a record of another chain label stands
\* between two records of one label.
C5_Witness ==
    /\ Written
    /\ \E i, j, k \in DOMAIN out :
          /\ i < j /\ j < k
          /\ out[i].chain_id = out[k].chain_id
          /\ out[i].chain_id # out[j].chain_id

C7_NothingFatal ==
    (input_hydrated # <<>> /\ input_reference # <<>>) =>
        /\ failure # "NeighborSearch"
        /\ AssignActed => Returned

C9_RepresentativeCoordinate ==
    Returned =>
        \A w \in Range(hydrated_water_residues) :
            LET as == input_hydrated[w].atoms
                oxy == {a \in 1..Len(as) : as[a].name \in {"O", "OW", "OH2"}}
            IN  /\ Len(as) = 0 =>
                      w \notin DOMAIN queries /\ w \notin DOMAIN residue_to_chain
                /\ Len(as) > 0 =>
                      /\ w \in DOMAIN queries
                      /\ oxy = {} => queries[w].coord = as[1].coord
                      /\ oxy # {} =>
                           \E a \in oxy : /\ \A b \in oxy : a <= b
                                          /\ queries[w].coord = as[a].coord

\* C9 witness: a queried solvent residue whose oxygen is not its first atom.
C9_Witness ==
    /\ Returned
    /\ \E w \in DOMAIN queries :
          /\ input_hydrated[w].atoms[1].name \notin {"O", "OW", "OH2"}
          /\ \E a \in 2..Len(input_hydrated[w].atoms) :
                /\ input_hydrated[w].atoms[a].name \in {"O", "OW", "OH2"}
                /\ queries[w].coord = input_hydrated[w].atoms[a].coord
                /\ queries[w].coord # input_hydrated[w].atoms[1].coord

\* C10: a residue with a solvent name is counted as polymer on neither side:
\* the reference sequence holds one label per standard, non-solvent residue
\* of the reference, in order, and the hydrated classes are disjoint.
C10_SameRuleBothSides ==
    Returned =>
        /\ ref_residues_with_chains =
              LET sel == IdxSeq({i \in 1..Len(input_reference) :
                                   /\ input_reference[i].het = " "
                                   /\ input_reference[i].resname
                                         \notin {"HOH", "WAT", "H2O", "TIP3"}})
              IN  [k \in 1..Len(sel) |-> input_reference[sel[k]].chain]
        /\ Range(hydrated_protein_residues) \cap Range(hydrated_water_residues) = {}
        /\ \A p \in Range(hydrated_protein_residues) :
              input_hydrated[p].resname \notin {"HOH", "WAT", "H2O", "TIP3"}

====
